---- MODULE Spec2Model ----
(***************************************************************************)
(* FightSight CV service (services/cv-service/app/main.py).                *)
(*                                                                         *)
(* The module builds a FastAPI application, attaches Starlette's           *)
(* CORSMiddleware, registers GET "/" and GET "/health", and, when run as   *)
(* the main program, hands the application to uvicorn.  The model follows  *)
(* the module top to bottom (one action per top-level statement) and then  *)
(* serves requests: a request is received, dispatched through the          *)
(* middleware and the router to its handler, and its response is sent.     *)
(* The framework calls the module makes (FastAPI(), add_middleware,        *)
(* @app.get, datetime.utcnow().isoformat(), uvicorn.run) are modelled by   *)
(* what those calls do for the arguments the module passes.                *)
(***************************************************************************)
EXTENDS Integers, Sequences, FiniteSets, TLC

VARIABLES
    name,             \* __name__ of the module: "__main__" or "main"
    pc,               \* next top-level statement of main.py, or "done"/"serving"
    app,              \* the FastAPI application object (line 6)
    user_middleware,  \* app.user_middleware, filled by add_middleware (line 13)
    routes,           \* app.router.routes, filled by FastAPI() and @app.get
    server,           \* arguments of the running uvicorn.run call, if any
    clock,            \* the system's UTC wall clock, in microseconds
    conn,             \* requests in flight, one per connection
    firstSeen,        \* per endpoint, the first response a client got from it
    healthLog         \* the two most recently handled GET /health responses

vars == <<name, pc, app, user_middleware, routes, server, clock, conn,
          firstSeen, healthLog>>

appState == <<app, user_middleware, routes, server, name, pc>>

----------------------------------------------------------------------------
(* Bounds *)

\* seconds the modelled clock can show beyond its start
MaxSec == 1

\* connections handled concurrently in SpecConc
MaxInflight == 2

----------------------------------------------------------------------------
(* Time: datetime.utcnow().isoformat() *)

MicrosPerSecond == 1000000

\* the microsecond fields the modelled clock visits within a second; 0 is
\* the value for which isoformat() drops the fraction
Micros == {0, 1}

ClockValues == {s * MicrosPerSecond + u : s \in 0..MaxSec, u \in Micros}

\* datetime.utcnow(): a naive datetime of the wall clock, to the microsecond
utcnow(now) ==
    [second |-> now \div MicrosPerSecond, microsecond |-> now % MicrosPerSecond]

\* mutant: a formatter that always drops the fraction
isoformat_seconds(dt) == <<dt.second>>

\* datetime.isoformat(): "S" when microsecond is 0, "S.ffffff" otherwise
\* (S stands for the date and time to the second); no timezone suffix
isoformat(dt) ==
    IF dt.microsecond = 0 THEN <<dt.second>>
    ELSE <<dt.second, dt.microsecond>>

\* the instant an ISO string denotes, in microseconds (the client's parse)
fromisoformat(ts) ==
    ts[1] * MicrosPerSecond + (IF Len(ts) = 2 THEN ts[2] ELSE 0)

----------------------------------------------------------------------------
(* Requests and responses *)

\* a path is the sequence of its "/" separators and segments:
\* "/health/" is <<"/", "health", "/">>
PathRoot == <<"/">>
PathHealth == <<"/", "health">>
PathHealthSlash == <<"/", "health", "/">>
PathNonexistent == <<"/", "nonexistent">>
PathDocs == <<"/", "docs">>

NoHeaders == [k \in {} |-> ""]

\* dict.update / MutableHeaders.update: the entries of g override those of h
Update(h, g) ==
    [k \in DOMAIN h \cup DOMAIN g |-> IF k \in DOMAIN g THEN g[k] ELSE h[k]]

Contains(seq, x) == \E i \in 1..Len(seq) : seq[i] = x

Response(status, headers, body) ==
    [status |-> status, headers |-> headers, body |-> body]

\* JSON bodies are records of their fields; text bodies are [text |-> ...]
PlainTextResponse(text, status, headers) ==
    Response(status, headers, [text |-> text])

----------------------------------------------------------------------------
(* The handlers of main.py *)

\* mutant: a root handler that reports another version
root_stale ==
    [name |-> "FightSight CV Service",
     version |-> "0.0.1",
     description |-> "Computer Vision analysis using MediaPipe",
     endpoints |-> [health |-> "/health", docs |-> "/docs",
                    openapi |-> "/openapi.json"]]

\* async def root(): the literal it returns
root ==
    [name |-> "FightSight CV Service",
     version |-> "0.1.0",
     description |-> "Computer Vision analysis using MediaPipe",
     endpoints |-> [health |-> "/health", docs |-> "/docs",
                    openapi |-> "/openapi.json"]]

\* mutant: a health handler that reports on a dependency it probed
health_check_probing(now) ==
    [status |-> IF now % 2 = 0 THEN "healthy" ELSE "degraded",
     service |-> "cv-service",
     timestamp |-> isoformat(utcnow(now)),
     mediapipe |-> "ready"]

\* mutant: a health handler whose timestamp was captured when the module
\* was imported (the clock's starting value)
health_check_import_time(now) ==
    [status |-> "healthy",
     service |-> "cv-service",
     timestamp |-> isoformat(utcnow(0)),
     mediapipe |-> "ready"]

\* mutant: a health handler that consults the other requests in flight
health_check_shared(now) ==
    [status |-> IF \E r \in DOMAIN conn : conn[r].phase = "handled"
                THEN "busy" ELSE "healthy",
     service |-> "cv-service",
     timestamp |-> isoformat(utcnow(now)),
     mediapipe |-> "ready"]

\* async def health_check(): the dict it returns when the clock reads now
health_check(now) ==
    [status |-> "healthy",
     service |-> "cv-service",
     timestamp |-> isoformat(utcnow(now)),
     mediapipe |-> "ready"]

\* calling a route's endpoint; every endpoint answers 200 with a JSON body.
\* The documentation endpoints FastAPI() registers are reduced to a marker.
CallEndpoint(endpoint, now) ==
    CASE endpoint = "root" -> Response(200, NoHeaders, root)
      [] endpoint = "health_check" -> Response(200, NoHeaders, health_check(now))
      [] OTHER -> Response(200, NoHeaders, [generated |-> endpoint])

----------------------------------------------------------------------------
(* Routing: app.router, as FastAPI() and @app.get set it up *)

Route(path, methods, endpoint) ==
    [path |-> path, methods |-> methods, endpoint |-> endpoint]

\* the routes FastAPI(...) registers itself with its default openapi_url,
\* docs_url and redoc_url
FrameworkRoutes ==
    << Route(<<"/", "openapi.json">>, {"GET"}, "openapi"),
       Route(PathDocs, {"GET"}, "swagger_ui_html"),
       Route(<<"/", "docs", "/", "oauth2-redirect">>, {"GET"}, "swagger_ui_redirect"),
       Route(<<"/", "redoc">>, {"GET"}, "redoc_html") >>

\* str.rstrip("/")
RECURSIVE rstrip(_)
rstrip(path) ==
    IF path # <<>> /\ path[Len(path)] = "/"
    THEN rstrip(SubSeq(path, 1, Len(path) - 1))
    ELSE path

\* indices of the routes whose path matches, fully (method too) or partially
FullMatches(rts, req) ==
    {i \in 1..Len(rts) : rts[i].path = req.path /\ req.method \in rts[i].methods}

PartialMatches(rts, req) ==
    {i \in 1..Len(rts) : rts[i].path = req.path /\ req.method \notin rts[i].methods}

Min(S) == CHOOSE x \in S : \A y \in S : x <= y

\* the path the router retries with when nothing matched (redirect_slashes)
RedirectPath(path) ==
    IF path[Len(path)] = "/" THEN rstrip(path) ELSE Append(path, "/")

\* mutant: a router that serves the root document for unknown paths
Router_fallback(rts, req, now) ==
    IF FullMatches(rts, req) # {}
    THEN CallEndpoint(rts[Min(FullMatches(rts, req))].endpoint, now)
    ELSE CallEndpoint("root", now)

\* Router.app: the first full match is called; a path that matches with the
\* wrong method is answered 405; a path that matches once a trailing slash
\* is added or removed is answered with a redirect; anything else is 404
Router(rts, req, now) ==
    IF FullMatches(rts, req) # {}
    THEN CallEndpoint(rts[Min(FullMatches(rts, req))].endpoint, now)
    ELSE IF PartialMatches(rts, req) # {}
    THEN Response(405, ("allow" :> rts[Min(PartialMatches(rts, req))].methods),
                  [detail |-> "Method Not Allowed"])
    ELSE IF req.path # PathRoot
            /\ \E i \in 1..Len(rts) : rts[i].path = RedirectPath(req.path)
    THEN Response(307, ("location" :> RedirectPath(req.path)), [text |-> ""])
    ELSE Response(404, NoHeaders, [detail |-> "Not Found"])

----------------------------------------------------------------------------
(* CORSMiddleware, for the arguments add_middleware passes (lines 13-19) *)

ALL_METHODS == <<"DELETE", "GET", "HEAD", "OPTIONS", "PATCH", "POST", "PUT">>

\* mutant: the policy the source's comment asks for in production, one
\* configured origin instead of the wildcard
CORSConfig_production ==
    [cls |-> "CORSMiddleware",
     allow_origins |-> <<"https://a.example">>,
     allow_credentials |-> TRUE,
     allow_methods |-> <<"*">>,
     allow_headers |-> <<"*">>]

\* the keyword arguments of app.add_middleware(CORSMiddleware, ...)
CORSConfig ==
    [cls |-> "CORSMiddleware",
     allow_origins |-> <<"*">>,
     allow_credentials |-> TRUE,
     allow_methods |-> <<"*">>,
     allow_headers |-> <<"*">>]

\* what CORSMiddleware.__init__ derives from its arguments
allow_methods(cfg) ==
    IF Contains(cfg.allow_methods, "*") THEN ALL_METHODS ELSE cfg.allow_methods

allow_all_origins(cfg) == Contains(cfg.allow_origins, "*")

allow_all_headers(cfg) == Contains(cfg.allow_headers, "*")

preflight_explicit_allow_origin(cfg) ==
    ~allow_all_origins(cfg) \/ cfg.allow_credentials

simple_headers(cfg) ==
    Update(IF allow_all_origins(cfg)
           THEN ("access-control-allow-origin" :> "*") ELSE NoHeaders,
           IF cfg.allow_credentials
           THEN ("access-control-allow-credentials" :> "true") ELSE NoHeaders)

\* the Access-Control-Allow-Methods value stands for ", ".join(allow_methods)
preflight_headers(cfg) ==
    Update(Update(IF preflight_explicit_allow_origin(cfg)
                  THEN ("vary" :> "Origin")
                  ELSE ("access-control-allow-origin" :> "*"),
                  ("access-control-allow-methods" :> allow_methods(cfg)
                   @@ "access-control-max-age" :> "600")),
           IF cfg.allow_credentials
           THEN ("access-control-allow-credentials" :> "true") ELSE NoHeaders)

is_allowed_origin(cfg, origin) ==
    allow_all_origins(cfg) \/ Contains(cfg.allow_origins, origin)

\* "Disallowed CORS " + ", ".join(failures)
failure_text(origin_ok, method_ok, headers_ok) ==
    CASE ~origin_ok /\ ~method_ok /\ ~headers_ok -> "Disallowed CORS origin, method, headers"
      [] ~origin_ok /\ ~method_ok /\ headers_ok -> "Disallowed CORS origin, method"
      [] ~origin_ok /\ method_ok /\ ~headers_ok -> "Disallowed CORS origin, headers"
      [] ~origin_ok /\ method_ok /\ headers_ok -> "Disallowed CORS origin"
      [] origin_ok /\ ~method_ok /\ ~headers_ok -> "Disallowed CORS method, headers"
      [] origin_ok /\ ~method_ok /\ headers_ok -> "Disallowed CORS method"
      [] OTHER -> "Disallowed CORS headers"

\* CORSMiddleware.preflight_response: the middleware answers by itself
preflight_response(cfg, req) ==
    LET requested_origin == req.headers["origin"]
        requested_method == req.headers["access-control-request-method"]
        has_requested_headers == "access-control-request-headers" \in DOMAIN req.headers
        origin_ok == is_allowed_origin(cfg, requested_origin)
        method_ok == Contains(allow_methods(cfg), requested_method)
        headers_ok == allow_all_headers(cfg) \/ ~has_requested_headers
                      \/ Contains(cfg.allow_headers,
                                  req.headers["access-control-request-headers"])
        h1 == IF origin_ok /\ preflight_explicit_allow_origin(cfg)
              THEN Update(preflight_headers(cfg),
                          ("access-control-allow-origin" :> requested_origin))
              ELSE preflight_headers(cfg)
        h2 == IF allow_all_headers(cfg) /\ has_requested_headers
              THEN Update(h1, ("access-control-allow-headers"
                               :> req.headers["access-control-request-headers"]))
              ELSE h1
    IN  IF origin_ok /\ method_ok /\ headers_ok
        THEN PlainTextResponse("OK", 200, h2)
        ELSE PlainTextResponse(failure_text(origin_ok, method_ok, headers_ok),
                               400, h2)

\* CORSMiddleware.send: the headers added to the wrapped application's
\* response to a request that carries an Origin header
simple_response(cfg, req, inner) ==
    LET origin == req.headers["origin"]
        has_cookie == "cookie" \in DOMAIN req.headers
        h1 == Update(inner.headers, simple_headers(cfg))
        explicit == Update(h1, ("access-control-allow-origin" :> origin
                                @@ "vary" :> "Origin"))
    IN  [inner EXCEPT !.headers =
            IF allow_all_origins(cfg) /\ has_cookie THEN explicit
            ELSE IF ~allow_all_origins(cfg) /\ is_allowed_origin(cfg, origin)
            THEN explicit
            ELSE h1]

\* mutant: a middleware that decorates every response, Origin or not
CORSMiddleware_always(cfg, req, inner) ==
    IF "origin" \in DOMAIN req.headers
    THEN simple_response(cfg, req, inner)
    ELSE [inner EXCEPT !.headers = Update(inner.headers, simple_headers(cfg))]

\* CORSMiddleware.__call__: inner is the wrapped application's response
CORSMiddleware(cfg, req, inner) ==
    IF "origin" \notin DOMAIN req.headers
    THEN inner
    ELSE IF req.method = "OPTIONS"
            /\ "access-control-request-method" \in DOMAIN req.headers
    THEN preflight_response(cfg, req)
    ELSE simple_response(cfg, req, inner)

\* the middleware stack around the router, outermost first
RECURSIVE Stack(_, _, _)
Stack(mw, req, inner) ==
    IF mw = <<>> THEN inner
    ELSE CORSMiddleware(mw[1], req, Stack(Tail(mw), req, inner))

\* the application's answer to req when the clock reads now
Serve(mw, rts, req, now) == Stack(mw, req, Router(rts, req, now))

----------------------------------------------------------------------------
(* The requests the model sends *)

Request(method, path, headers) ==
    [method |-> method, path |-> path, headers |-> headers]

OriginA == "https://a.example"
OriginB == "https://b.example"

Preflight(origin, method) ==
    ("origin" :> origin @@ "access-control-request-method" :> method)

\* plain requests, cross-origin requests (with and without a cookie) and
\* preflights, to registered and unregistered paths
Requests ==
    { Request("GET", PathRoot, NoHeaders),
      Request("GET", PathHealth, NoHeaders),
      Request("GET", PathNonexistent, NoHeaders),
      Request("GET", PathHealthSlash, NoHeaders),
      Request("GET", PathDocs, NoHeaders),
      Request("GET", PathRoot, ("origin" :> OriginA)),
      Request("GET", PathHealth, ("origin" :> OriginB @@ "cookie" :> "session=1")),
      Request("GET", PathNonexistent, ("origin" :> OriginA)),
      Request("POST", PathRoot, ("origin" :> OriginB)),
      Request("OPTIONS", PathHealth,
              Preflight(OriginA, "GET")
              @@ "access-control-request-headers" :> "x-custom"),
      Request("OPTIONS", PathRoot, Preflight(OriginB, "TRACE")),
      Request("OPTIONS", PathNonexistent, Preflight(OriginA, "POST")) }

\* the two endpoints of main.py, as concurrent clients poll them
ConcRequests ==
    { Request("GET", PathRoot, NoHeaders),
      Request("GET", PathHealth, NoHeaders) }

IsRoot(req) == req.method = "GET" /\ req.path = PathRoot

IsHealth(req) == req.method = "GET" /\ req.path = PathHealth

\* a JSON body without its timestamp field
NonTimestamp(body) == [f \in DOMAIN body \ {"timestamp"} |-> body[f]]

----------------------------------------------------------------------------
(* Executing main.py, top to bottom *)

Idle == [phase |-> "idle"]

InitWith(Conns) ==
    /\ name \in {"__main__", "main"}
    /\ pc = "L6"
    /\ app = <<>>
    /\ user_middleware = <<>>
    /\ routes = <<>>
    /\ server = <<>>
    /\ clock = 0
    /\ conn = [r \in Conns |-> Idle]
    /\ firstSeen = [e \in {"root", "health_check"} |-> <<>>]
    /\ healthLog = <<>>

\* line 6: app = FastAPI(title=..., description=..., version=...)
CreateApp ==
    /\ pc = "L6"
    /\ app' = << [title |-> "FightSight CV Service",
                  description |-> "Computer Vision service for combat sport video analysis using MediaPipe",
                  version |-> "0.1.0"] >>
    /\ routes' = FrameworkRoutes
    /\ pc' = "L13"
    /\ UNCHANGED <<name, user_middleware, server, clock, conn, firstSeen, healthLog>>

\* line 13: app.add_middleware(CORSMiddleware, ...) inserts at the front
AddMiddleware ==
    /\ pc = "L13"
    /\ user_middleware' = <<CORSConfig>> \o user_middleware
    /\ pc' = "L21"
    /\ UNCHANGED <<name, app, routes, server, clock, conn, firstSeen, healthLog>>

\* line 21: @app.get("/") registers root
RegisterRoot ==
    /\ pc = "L21"
    /\ routes' = Append(routes, Route(PathRoot, {"GET"}, "root"))
    /\ pc' = "L35"
    /\ UNCHANGED <<name, app, user_middleware, server, clock, conn, firstSeen, healthLog>>

\* line 35: @app.get("/health") registers health_check
RegisterHealth ==
    /\ pc = "L35"
    /\ routes' = Append(routes, Route(PathHealth, {"GET"}, "health_check"))
    /\ pc' = "L45"
    /\ UNCHANGED <<name, app, user_middleware, server, clock, conn, firstSeen, healthLog>>

\* the keyword arguments of uvicorn.run (lines 46-52)
UvicornArgs ==
    [app |-> "main:app", host |-> "0.0.0.0", port |-> 8000,
     reload |-> TRUE, log_level |-> "info"]

\* mutant: a module that starts the server whenever it is loaded
MainStanza_unguarded ==
    /\ pc = "L45"
    /\ server' = <<UvicornArgs>>
    /\ pc' = "serving"
    /\ UNCHANGED <<name, app, user_middleware, routes, clock, conn, firstSeen, healthLog>>

\* line 45: if __name__ == "__main__": uvicorn.run(...), which serves until
\* the process ends; an imported module is simply done
MainStanza ==
    /\ pc = "L45"
    /\ IF name = "__main__"
       THEN server' = <<UvicornArgs>> /\ pc' = "serving"
       ELSE server' = server /\ pc' = "done"
    /\ UNCHANGED <<name, app, user_middleware, routes, clock, conn, firstSeen, healthLog>>

\* the application answers requests once the module has been executed: from
\* its own listener, or from the server or test client that imported it
Ready == pc \in {"serving", "done"}

----------------------------------------------------------------------------
(* Serving requests *)

\* a request arrives on connection r
Receive(r, req) ==
    /\ Ready
    /\ conn[r].phase = "idle"
    /\ conn' = [conn EXCEPT ![r] =
                  [phase |-> "received", req |-> req, recvAt |-> clock,
                   setBack |-> FALSE]]
    /\ UNCHANGED <<appState, clock, firstSeen, healthLog>>

EndpointOf(req) == IF IsRoot(req) THEN "root" ELSE "health_check"

\* the last two entries of a log
LastTwo(log) == IF Len(log) > 2 THEN SubSeq(log, Len(log) - 1, Len(log)) ELSE log

\* what the client side remembers of a response
Seen(resp) == [status |-> resp.status, body |-> NonTimestamp(resp.body)]

\* mutant: a dispatch that unregisters the route it has just served
Handle_consuming(r) ==
    /\ conn[r].phase = "received"
    /\ LET req == conn[r].req
           resp == Serve(user_middleware, routes, req, clock)
       IN  /\ conn' = [conn EXCEPT ![r] =
                         [phase |-> "handled", req |-> req,
                          recvAt |-> conn[r].recvAt,
                          setBack |-> conn[r].setBack, resp |-> resp]]
           /\ routes' = IF IsRoot(req) \/ IsHealth(req)
                        THEN SubSeq(routes, 1, Len(FrameworkRoutes))
                        ELSE routes
           /\ firstSeen' =
                IF (IsRoot(req) \/ IsHealth(req)) /\ firstSeen[EndpointOf(req)] = <<>>
                THEN [firstSeen EXCEPT ![EndpointOf(req)] = <<Seen(resp)>>]
                ELSE firstSeen
           /\ healthLog' =
                IF IsHealth(req)
                THEN LastTwo(Append(healthLog,
                        [at |-> clock, status |-> resp.status, body |-> resp.body]))
                ELSE healthLog
    /\ UNCHANGED <<name, pc, app, user_middleware, server, clock>>

\* the request on connection r runs through the middleware and the router
\* to its handler, which reads the clock if it is health_check; the handlers
\* assign nothing
Handle(r) ==
    /\ conn[r].phase = "received"
    /\ LET req == conn[r].req
           resp == Serve(user_middleware, routes, req, clock)
       IN  /\ conn' = [conn EXCEPT ![r] =
                         [phase |-> "handled", req |-> req,
                          recvAt |-> conn[r].recvAt,
                          setBack |-> conn[r].setBack, resp |-> resp]]
           /\ firstSeen' =
                IF (IsRoot(req) \/ IsHealth(req)) /\ firstSeen[EndpointOf(req)] = <<>>
                THEN [firstSeen EXCEPT ![EndpointOf(req)] = <<Seen(resp)>>]
                ELSE firstSeen
           /\ healthLog' =
                IF IsHealth(req)
                THEN LastTwo(Append(healthLog,
                        [at |-> clock, status |-> resp.status, body |-> resp.body]))
                ELSE healthLog
    /\ UNCHANGED <<appState, clock>>

\* the response on connection r goes out
Send(r) ==
    /\ conn[r].phase = "handled"
    /\ conn' = [conn EXCEPT ![r] = Idle]
    /\ UNCHANGED <<appState, clock, firstSeen, healthLog>>

\* the wall clock advances
Tick ==
    /\ \E v \in ClockValues : v > clock /\ clock' = v
    /\ UNCHANGED <<appState, conn, firstSeen, healthLog>>

\* the wall clock is set back (an NTP step, an operator); utcnow() reads the
\* wall clock, not a monotonic one
SetBack ==
    /\ \E v \in ClockValues : v < clock /\ clock' = v
    /\ conn' = [r \in DOMAIN conn |->
                  IF conn[r].phase = "idle" THEN conn[r]
                  ELSE [conn[r] EXCEPT !.setBack = TRUE]]
    /\ UNCHANGED <<appState, firstSeen, healthLog>>

Load == CreateApp \/ AddMiddleware \/ RegisterRoot \/ RegisterHealth \/ MainStanza

\* one client connection at a time, every kind of request, any clock
Init == InitWith({1})

Next ==
    \/ Load
    \/ \E req \in Requests : Receive(1, req)
    \/ Handle(1)
    \/ Send(1)
    \/ Tick
    \/ SetBack

Spec == Init /\ [][Next]_vars

\* MaxInflight connections polling the two endpoints concurrently
InitConc == InitWith(1..MaxInflight)

NextConc ==
    \/ Load
    \/ \E r \in 1..MaxInflight : \E req \in ConcRequests : Receive(r, req)
    \/ \E r \in 1..MaxInflight : Handle(r)
    \/ \E r \in 1..MaxInflight : Send(r)
    \/ Tick

SpecConc == InitConc /\ [][NextConc]_vars

----------------------------------------------------------------------------
(* Properties *)

Conns == DOMAIN conn

Handled(r) == conn[r].phase = "handled"

\* connection r's request is dispatched in this step
Handling(r) == conn[r].phase = "received" /\ conn'[r].phase = "handled"

\* connection r's response is sent in this step
Sending(r) == conn[r].phase = "handled" /\ conn'[r].phase = "idle"

HasOrigin(req) == "origin" \in DOMAIN req.headers

IsPreflight(req) ==
    /\ HasOrigin(req)
    /\ req.method = "OPTIONS"
    /\ "access-control-request-method" \in DOMAIN req.headers

RegisteredPaths == {routes[i].path : i \in 1..Len(routes)}

CorsHeaderNames ==
    {"access-control-allow-origin", "access-control-allow-credentials",
     "access-control-allow-methods", "access-control-allow-headers",
     "access-control-max-age"}

\* C1: every GET / is answered 200 with exactly the fixed ServiceInfo
\* document: four top-level fields, three endpoint entries, fixed values.
C1_RootReturnsServiceInfo ==
    \A r \in Conns :
        Handled(r) /\ IsRoot(conn[r].req) =>
            /\ conn[r].resp.status = 200
            /\ DOMAIN conn[r].resp.body = {"name", "version", "description", "endpoints"}
            /\ DOMAIN conn[r].resp.body.endpoints = {"health", "docs", "openapi"}
            /\ conn[r].resp.body.name = "FightSight CV Service"
            /\ conn[r].resp.body.version = "0.1.0"
            /\ conn[r].resp.body.description = "Computer Vision analysis using MediaPipe"
            /\ conn[r].resp.body.endpoints.health = "/health"
            /\ conn[r].resp.body.endpoints.docs = "/docs"
            /\ conn[r].resp.body.endpoints.openapi = "/openapi.json"

\* a cross-origin GET / has been answered after /health was polled twice
C1_Witness ==
    /\ Handled(1)
    /\ IsRoot(conn[1].req)
    /\ HasOrigin(conn[1].req)
    /\ Len(healthLog) = 2

\* C2: every GET /health is answered 200 with exactly the fields status,
\* service, timestamp, mediapipe; the three constants are fixed and the
\* timestamp is the rendering of some clock value, nothing else varies.
C2_HealthReturnsHealthStatus ==
    \A r \in Conns :
        Handled(r) /\ IsHealth(conn[r].req) =>
            /\ conn[r].resp.status = 200
            /\ DOMAIN conn[r].resp.body = {"status", "service", "timestamp", "mediapipe"}
            /\ conn[r].resp.body.status = "healthy"
            /\ conn[r].resp.body.service = "cv-service"
            /\ conn[r].resp.body.mediapipe = "ready"
            /\ \E v \in ClockValues :
                 conn[r].resp.body.timestamp = isoformat(utcnow(v))

\* a cross-origin GET /health has been answered at an odd microsecond
C2_Witness ==
    /\ Handled(1)
    /\ IsHealth(conn[1].req)
    /\ HasOrigin(conn[1].req)
    /\ Len(conn[1].resp.body.timestamp) = 2

\* C3 as stated: of two GET /health responses handled one after the other,
\* the timestamps differ, the second is not earlier than the first, and all
\* other fields are identical.
C3_Original ==
    Len(healthLog) = 2 =>
        /\ healthLog[2].body.timestamp # healthLog[1].body.timestamp
        /\ fromisoformat(healthLog[2].body.timestamp)
             >= fromisoformat(healthLog[1].body.timestamp)
        /\ healthLog[2].status = healthLog[1].status
        /\ NonTimestamp(healthLog[2].body) = NonTimestamp(healthLog[1].body)

\* C3 amended: of two GET /health responses handled one after the other,
\* all fields but the timestamp are identical; the timestamps differ
\* whenever the clock read different values at the two handlings, and the
\* second is not earlier than the first whenever the clock at the second
\* handling read no earlier than at the first.
C3_SuccessiveHealthTimestamps ==
    Len(healthLog) = 2 =>
        /\ healthLog[2].status = healthLog[1].status
        /\ NonTimestamp(healthLog[2].body) = NonTimestamp(healthLog[1].body)
        /\ healthLog[2].at # healthLog[1].at =>
             healthLog[2].body.timestamp # healthLog[1].body.timestamp
        /\ healthLog[2].at >= healthLog[1].at =>
             fromisoformat(healthLog[2].body.timestamp)
               >= fromisoformat(healthLog[1].body.timestamp)

\* two GET /health were handled one microsecond apart
C3_Witness ==
    /\ Len(healthLog) = 2
    /\ healthLog[2].at = healthLog[1].at + 1
    /\ healthLog[2].body.timestamp # healthLog[1].body.timestamp

\* C4: handling GET / or GET /health changes nothing of the application
\* (routes, middleware, application object, server, module state), and the
\* response has the status and non-timestamp fields of the first response
\* that endpoint ever gave.
C4_HandlersIdempotent ==
    [][\A r \in Conns :
         Handling(r) /\ (IsRoot(conn[r].req) \/ IsHealth(conn[r].req)) =>
            /\ appState' = appState
            /\ firstSeen'[EndpointOf(conn[r].req)] # <<>>
            /\ Seen(conn'[r].resp) = firstSeen'[EndpointOf(conn[r].req)][1]]_vars

\* GET / has been answered, later than two GET /health and a clock tick
C4_Witness ==
    /\ Handled(1)
    /\ IsRoot(conn[1].req)
    /\ HasOrigin(conn[1].req)
    /\ firstSeen["root"] # <<>>
    /\ Len(healthLog) = 2
    /\ clock > 0

C6_Original ==
    \A r \in Conns :
        Handled(r) =>
            /\ "access-control-allow-origin" \in DOMAIN conn[r].resp.headers
            /\ "access-control-allow-credentials" \in DOMAIN conn[r].resp.headers

\* C6 amended: every response to a request that carries an Origin header,
\* a not-found or method-not-allowed answer included, carries
\* Access-Control-Allow-Origin and Access-Control-Allow-Credentials "true"
\* (a preflight answer also the allowed methods); a response to a request
\* without an Origin header carries no cross-origin header at all.
C6_CorsHeadersIffOrigin ==
    \A r \in Conns :
        Handled(r) =>
            LET h == conn[r].resp.headers
            IN  IF HasOrigin(conn[r].req)
                THEN /\ {"access-control-allow-origin",
                         "access-control-allow-credentials"} \subseteq DOMAIN h
                     /\ h["access-control-allow-credentials"] = "true"
                     /\ IsPreflight(conn[r].req) =>
                          "access-control-allow-methods" \in DOMAIN h
                ELSE DOMAIN h \cap CorsHeaderNames = {}

\* a cross-origin request to an unregistered path has been answered 404
C6_Witness ==
    /\ Handled(1)
    /\ HasOrigin(conn[1].req)
    /\ conn[1].resp.status = 404
    /\ "access-control-allow-origin" \in DOMAIN conn[1].resp.headers

\* the bodies of the two documents the service serves
IsServiceDocument(body) ==
    DOMAIN body \cap {"name", "endpoints", "timestamp", "mediapipe"} # {}

GetUnregistered(req) == req.method = "GET" /\ req.path \notin RegisteredPaths

\* whatever was handled, GET / and GET /health are still answered 200
StillServing ==
    /\ Serve(user_middleware, routes, Request("GET", PathRoot, NoHeaders), clock).status = 200
    /\ Serve(user_middleware, routes, Request("GET", PathHealth, NoHeaders), clock).status = 200

\* C7 as stated: a GET to any path that is not a registered route gets a
\* 4xx not-found status, never 200 and never one of the service's
\* documents, and leaves the service able to answer GET / and GET /health.
C7_Original ==
    \A r \in Conns :
        Handled(r) /\ GetUnregistered(conn[r].req) =>
            /\ conn[r].resp.status \in 400..499
            /\ conn[r].resp.status # 200
            /\ ~IsServiceDocument(conn[r].resp.body)
            /\ StillServing

\* C7 amended: a GET to a path that is not a registered route gets 404,
\* except that a path which becomes a registered route when its trailing
\* slashes are removed or one is added gets a 307 redirect to that route; in both
\* cases the status is not 200, the body is none of the service's
\* documents, the application is left unchanged by the handling and GET /
\* and GET /health are still answered 200.
C7_UnregisteredPathNotServed ==
    [][\A r \in Conns :
         /\ Handling(r) /\ GetUnregistered(conn[r].req) => appState' = appState
         /\ Handled(r) /\ GetUnregistered(conn[r].req) =>
              /\ \/ conn[r].resp.status = 404
                 \/ /\ conn[r].resp.status = 307
                    /\ conn[r].resp.headers["location"] \in RegisteredPaths
                    /\ conn[r].resp.headers["location"] = RedirectPath(conn[r].req.path)
              /\ conn[r].resp.status = 307 =>
                   RedirectPath(conn[r].req.path) \in RegisteredPaths
              /\ conn[r].resp.status = 404 =>
                   RedirectPath(conn[r].req.path) \notin RegisteredPaths
              /\ ~IsServiceDocument(conn[r].resp.body)
              /\ StillServing]_vars

\* GET /nonexistent has been answered 404 after /health had been polled
C7_Witness ==
    /\ Handled(1)
    /\ conn[1].req.path = PathNonexistent
    /\ conn[1].req.method = "GET"
    /\ conn[1].resp.status = 404
    /\ healthLog # <<>>

\* C8: with requests to / and /health in flight concurrently, dispatching
\* one leaves every other connection untouched and the application
\* unchanged, every response is a 200, and any two responses to the same
\* endpoint agree on status and on every non-timestamp field, however the
\* handlings interleave.
C8_ConcurrentRequestsIndependent ==
    [][/\ \A r \in Conns :
            Handling(r) =>
               /\ appState' = appState
               /\ \A q \in Conns \ {r} : conn'[q] = conn[q]
       /\ \A r \in Conns :
            Handled(r) => conn[r].resp.status = 200
       /\ \A r, q \in Conns :
            Handled(r) /\ Handled(q) /\ conn[r].req = conn[q].req =>
               Seen(conn[r].resp) = Seen(conn[q].resp)]_vars

\* two GET /health were in flight together and answered at different times
C8_Witness ==
    /\ Handled(1)
    /\ Handled(2)
    /\ IsHealth(conn[1].req)
    /\ IsHealth(conn[2].req)
    /\ conn[2].recvAt < fromisoformat(conn[1].resp.body.timestamp)
    /\ conn[1].recvAt < fromisoformat(conn[2].resp.body.timestamp)
    /\ conn[1].resp.body.timestamp # conn[2].resp.body.timestamp

\* C9: once the module has been executed, a server is running if and only
\* if the module was run as the main program; it then listens on 0.0.0.0,
\* port 8000, with reload on and log level info; an imported module has
\* its application, middleware and both routes but no server.  No server
\* exists before line 45 either.
C9_ListenerIffMain ==
    /\ server # <<>> <=> (name = "__main__" /\ pc = "serving")
    /\ Ready => (pc = "serving" <=> name = "__main__")
    /\ server # <<>> =>
         /\ server[1].host = "0.0.0.0"
         /\ server[1].port = 8000
         /\ server[1].reload = TRUE
         /\ server[1].log_level = "info"
         /\ server[1].app = "main:app"
    /\ pc = "done" =>
         /\ app # <<>>
         /\ user_middleware = <<CORSConfig>>
         /\ {PathRoot, PathHealth} \subseteq RegisteredPaths
         /\ server = <<>>

\* the module was imported and its application has answered a request
C9_Witness ==
    /\ name = "main"
    /\ pc = "done"
    /\ Handled(1)
    /\ server = <<>>

\* C10 as stated: the timestamp of a GET /health response is the clock
\* value read at the handling, not earlier than the clock when the request
\* was received and not later than the clock when the response is sent.
C10_Original ==
    [][\A r \in Conns :
         /\ Handling(r) /\ IsHealth(conn[r].req) =>
              /\ fromisoformat(conn'[r].resp.body.timestamp) = clock
              /\ conn[r].recvAt <= fromisoformat(conn'[r].resp.body.timestamp)
         /\ Sending(r) /\ IsHealth(conn[r].req) =>
              fromisoformat(conn[r].resp.body.timestamp) <= clock]_vars

\* C10 amended: the timestamp of a GET /health response is the clock
\* value read at the handling of that request (whatever the clock read at
\* import or at earlier requests); provided the wall clock is not set back
\* while the request is in flight, it is not earlier than the clock at
\* receipt and not later than the clock at sending.
C10_TimestampReadAtHandling ==
    [][\A r \in Conns :
         /\ Handling(r) /\ IsHealth(conn[r].req) =>
              /\ fromisoformat(conn'[r].resp.body.timestamp) = clock
              /\ ~conn[r].setBack =>
                   conn[r].recvAt <= fromisoformat(conn'[r].resp.body.timestamp)
         /\ Sending(r) /\ IsHealth(conn[r].req) /\ ~conn[r].setBack =>
              /\ conn[r].recvAt <= fromisoformat(conn[r].resp.body.timestamp)
              /\ fromisoformat(conn[r].resp.body.timestamp) <= clock]_vars

\* a GET /health, received after an earlier one had been answered, has been
\* answered with a later timestamp than the earlier one and than its receipt
C10_Witness ==
    /\ Handled(1)
    /\ IsHealth(conn[1].req)
    /\ ~conn[1].setBack
    /\ Len(healthLog) = 2
    /\ healthLog[1].at < conn[1].recvAt
    /\ conn[1].recvAt < fromisoformat(conn[1].resp.body.timestamp)
    /\ fromisoformat(conn[1].resp.body.timestamp) < clock


====
